---- MODULE Spec2Model ----
(***************************************************************************)
(* Inventory simulation of SeanTater/acceleratedmodules.                   *)
(*                                                                         *)
(*   rustsim/src/lib.rs     the scalar engine: Simulation::new,            *)
(*                          simulate_demand_inner (one 365-day trial) and  *)
(*                          repeat_simulate_demand (a batch of trials).    *)
(*   rustoclsim/src/lib.rs  the OpenCL engine: Simulation::new and         *)
(*                          ocl_repeat_simulate_demand.                    *)
(*                                                                         *)
(* Spec is one trial of the scalar engine, step by step; SpecBatch is the   *)
(* scalar batch, one trial per step; SpecOcl is the OpenCL host code;      *)
(* SpecReduce is its read-back on lanes that differ; SpecPair is two       *)
(* scalar trials on the same draws.                                        *)
(***************************************************************************)
EXTENDS Integers, Sequences, FiniteSets, TLC

(***************************************************************************)
(* Bounds.  Days is the horizon of `for day in 0..365` and NumElements the  *)
(* support [1, 1000] of the two Zipf samplers, both scaled down; the       *)
(* arguments of the calls are drawn from 0..Max and, for the stocks and    *)
(* lead times, from the top of the 64-bit word; StreamLen is the period    *)
(* of the sample streams a batch draws from; the OpenCL batch is asked for *)
(* up to MaxChunks thousands of trials, and a lane of the device reports   *)
(* counters of 0, MaxLaneOut or the largest word.                          *)
(***************************************************************************)
Days == 3
NumElements == 2
MaxSafety == 2
MaxLead == 2
MaxOrder == 2
MaxStart == 1
MaxCount == 2
StreamLen == 1
MaxChunks == 1
MaxLaneOut == 1

(***************************************************************************)
(* Values.                                                                 *)
(***************************************************************************)
\* Option<T>: None is the empty tuple, Some(x) the tuple <<x>>.
None == <<>>
Some(x) == <<x>>
NoFault == "none"
NoCaller == "none"
NoDay == 0 - 1

(***************************************************************************)
(* Numbers.  usize and u64 are words of 64 bits, more than an integer of   *)
(* the model checker holds, so a number that the program keeps in a word   *)
(* is carried by three digits to the base 10^9, the most significant       *)
(* first: <<18, 446744073, 709551615>> is 18446744073709551615.  The two   *)
(* lower digits are below Base; the first digit is not bounded, so sums    *)
(* and products of words that leave the word are numbers too.  Plus,       *)
(* Minus, Times and DivMod are the operations of the natural numbers.      *)
(***************************************************************************)
Base == 1000000000

Zero == <<0, 0, 0>>

One == <<0, 0, 1>>

\* The number of a small integer, and the integer of a small number.
W(n) == <<0, n \div Base, n % Base>>

ToInt(x) == (x[1] * Base + x[2]) * Base + x[3]

IsSmall(x) == x[1] = 0 /\ x[2] = 0

Lt(x, y) ==
    \/ x[1] < y[1]
    \/ x[1] = y[1] /\ x[2] < y[2]
    \/ x[1] = y[1] /\ x[2] = y[2] /\ x[3] < y[3]

Le(x, y) == ~Lt(y, x)

Plus(x, y) ==
    LET lo == x[3] + y[3]
        mid == x[2] + y[2] + (IF lo >= Base THEN 1 ELSE 0)
    IN  <<x[1] + y[1] + (IF mid >= Base THEN 1 ELSE 0), mid % Base, lo % Base>>

\* x - y, for y <= x.
Minus(x, y) ==
    LET lo == x[3] - y[3]
        mid == x[2] - y[2] - (IF lo < 0 THEN 1 ELSE 0)
    IN  <<x[1] - y[1] - (IF mid < 0 THEN 1 ELSE 0), mid % Base, lo % Base>>

\* x * d for an integer d in 0 .. 2000000: the long multiplication of x,
\* three decimal places at a time.
ShortTimes(x, d) ==
    LET p6 == (x[3] % 1000) * d
        p5 == ((x[3] \div 1000) % 1000) * d + (p6 \div 1000)
        p4 == (x[3] \div 1000000) * d + (p5 \div 1000)
        p3 == (x[2] % 1000) * d + (p4 \div 1000)
        p2 == ((x[2] \div 1000) % 1000) * d + (p3 \div 1000)
        p1 == (x[2] \div 1000000) * d + (p2 \div 1000)
    IN  <<x[1] * d + (p1 \div 1000),
          ((p1 % 1000) * 1000 + (p2 % 1000)) * 1000 + (p3 % 1000),
          ((p4 % 1000) * 1000 + (p5 % 1000)) * 1000 + (p6 % 1000)>>

\* x * y: the long multiplication of x by the decimal places of y, three at
\* a time, the most significant first.
Times(x, y) ==
    IF IsSmall(x) /\ IsSmall(y) /\ x[3] < 32768 /\ y[3] < 32768 THEN W(x[3] * y[3])
    ELSE IF IsSmall(y) /\ y[3] <= 2000000 THEN ShortTimes(x, y[3])
    ELSE LET m0 == ShortTimes(x, y[1])
             m1 == Plus(ShortTimes(m0, 1000), ShortTimes(x, y[2] \div 1000000))
             m2 == Plus(ShortTimes(m1, 1000), ShortTimes(x, (y[2] \div 1000) % 1000))
             m3 == Plus(ShortTimes(m2, 1000), ShortTimes(x, y[2] % 1000))
             m4 == Plus(ShortTimes(m3, 1000), ShortTimes(x, y[3] \div 1000000))
             m5 == Plus(ShortTimes(m4, 1000), ShortTimes(x, (y[3] \div 1000) % 1000))
         IN  Plus(ShortTimes(m5, 1000), ShortTimes(x, y[3] % 1000))

\* <<x div d, x mod d>> for an integer d in 1 .. 2000000: the long division
\* of x, three decimal places at a time.
ShortDivMod(x, d) ==
    LET a1 == (x[1] % d) * 1000 + (x[2] \div 1000000)
        a2 == (a1 % d) * 1000 + ((x[2] \div 1000) % 1000)
        a3 == (a2 % d) * 1000 + (x[2] % 1000)
        a4 == (a3 % d) * 1000 + (x[3] \div 1000000)
        a5 == (a4 % d) * 1000 + ((x[3] \div 1000) % 1000)
        a6 == (a5 % d) * 1000 + (x[3] % 1000)
    IN  << <<x[1] \div d,
             ((a1 \div d) * 1000 + (a2 \div d)) * 1000 + (a3 \div d),
             ((a4 \div d) * 1000 + (a5 \div d)) * 1000 + (a6 \div d)>>,
           W(a6 % d) >>

\* <<x div y, x mod y>>, for y > 0: by long division when y is small, else
\* from the quotient and remainder by 256 * y.
RECURSIVE DivMod(_, _)
DivMod(x, y) ==
    IF Lt(x, y) THEN <<Zero, x>>
    ELSE IF IsSmall(x) /\ IsSmall(y) THEN <<W(x[3] \div y[3]), W(x[3] % y[3])>>
    ELSE IF IsSmall(y) /\ y[3] <= 2000000 THEN ShortDivMod(x, y[3])
    ELSE LET qr == DivMod(x, ShortTimes(y, 256))
             d == Cardinality({k \in 1 .. 255 : Le(ShortTimes(y, k), qr[2])})
         IN  <<Plus(ShortTimes(qr[1], 256), W(d)), Minus(qr[2], ShortTimes(y, d))>>

Div(x, y) == DivMod(x, y)[1]

Mod(x, y) == DivMod(x, y)[2]

\* An f64 quotient is carried as the pair <<dividend, divisor>>; IEEE 754
\* gives NaN for 0.0 / 0.0 and an infinity for x / 0.0, x # 0.
NaN == <<Zero, Zero>>
IsNaN(x) == x = NaN

\* f64 shape parameters are carried in hundredths: 2.75 is 275.
DefaultJobLotZipf == 275
DefaultItemwiseTrafficZipf == 400
ShapeInputs == {None, Some(0)}

VARIABLES
    pc,                  \* where the caller is: "new", "idle", "trial", "repeat", "returned", "panic", "abort"
    sim,                 \* the Simulation struct
    caller, starting_quantity, count,
    trial,               \* the locals of simulate_demand_inner
    st, ss, ft, fs, iter,    \* the locals of repeat_simulate_demand
    result,              \* Option of the returned tuple
    trials, trial_sum, started,  \* history: trials returned, their sum, the first state of the last trial that got its ring
    ocl,                 \* the locals of ocl_repeat_simulate_demand
    failure,             \* history: the step of the OpenCL batch that failed
    payload,             \* Option of the value a panic carries
    twin                 \* a second engine and its trial, run on the same draws as the first

callv == <<caller, starting_quantity, count>>
batchv == <<st, ss, ft, fs, iter>>
histv == <<trials, trial_sum, started>>
oclv == <<ocl, failure, payload>>
vars == <<pc, sim, callv, trial, batchv, result, histv, oclv, twin>>

(***************************************************************************)
(* Pure helpers.                                                           *)
(***************************************************************************)
UnwrapOr(opt, default) == IF opt = None THEN default ELSE opt[1]

\* zipf::ZipfDistribution::new(num_elements, exponent) is Ok iff both are positive.
ZipfNewOk(num_elements, exponent) == num_elements > 0 /\ exponent > 0

Max(a, b) == IF Le(b, a) THEN a ELSE b

(***************************************************************************)
(* The words.  An addition that does not fit the word panics ("attempt to  *)
(* add with overflow") in a build with overflow checks, the debug profile, *)
(* and wraps in a build without them, the release profile; checks is TRUE  *)
(* for the first kind of build.                                            *)
(***************************************************************************)
\* usize::MAX and u64::MAX, 2^64 - 1
UsizeMax == <<18, 446744073, 709551615>>

\* 2^64
TwoTo64 == <<18, 446744073, 709551616>>

\* isize::MAX, 2^63 - 1
IsizeMax == <<9, 223372036, 854775807>>

\* 2^32
TwoTo32 == <<0, 4, 294967296>>

\* The low 32 bits of x, x mod 2^32: the remainders of two divisions by 2^16.
Low32(x) ==
    IF Lt(x, TwoTo32) THEN x
    ELSE LET a == ShortDivMod(x, 65536)
             b == ShortDivMod(a[1], 65536)
         IN  Plus(ShortTimes(b[2], 65536), a[2])

\* The low 64 bits of x, x mod 2^64: the low 32 bits of x div 2^32, and the
\* low 32 bits of x.
Low64(x) ==
    IF Lt(x, TwoTo64) THEN x
    ELSE LET a == ShortDivMod(x, 65536)
             b == ShortDivMod(a[1], 65536)
             high == Low32(b[1])
         IN  Plus(ShortTimes(Plus(ShortTimes(high, 65536), b[2]), 65536), a[2])

\* a + b does not fit the word.
AddOverflows(a, b) == Lt(UsizeMax, Plus(a, b))

\* a.wrapping_add(b)
WrapAdd(a, b) == IF AddOverflows(a, b) THEN Minus(Plus(a, b), TwoTo64) ELSE Plus(a, b)

\* a.wrapping_sub(b)
WrapSub(a, b) == IF Le(b, a) THEN Minus(a, b) ELSE Minus(Plus(a, TwoTo64), b)

\* a as f64 / b as f64
F64Div(a, b) == <<a, b>>

\* x as f64 / (x as f64 + y as f64)
Rate(x, y) == F64Div(x, Plus(x, y))

ResultTuple(xst, xss, xft, xfs) == <<xst, xss, xft, xfs, Rate(xst, xft), Rate(xss, xfs)>>

\* trucks[day % self.lead_time]
ArrivalSlot(d, lt) == d % ToInt(lt)

\* trucks[(day + self.lead_time - 1) % self.lead_time]; the sum fits the
\* word for every ring that was allocated.
OrderSlot(d, lt) == (d + ToInt(lt) - 1) % ToInt(lt)

\* if stock >= request
Enough(s, request) == Le(request, s)

\* if stock < self.safety_stock
BelowSafety(s, safety) == Lt(s, safety)

OrdersPlusOne(short, oq) == Plus(Div(short, oq), One)

\* short + self.order_quantity - 1 does not fit the word.
OrdersOverflows(short, oq) == AddOverflows(short, oq) \/ WrapAdd(short, oq) = Zero

\* (short + self.order_quantity - 1) / self.order_quantity, the sum wrapped.
Orders(short, oq) == Div(WrapSub(WrapAdd(short, oq), One), oq)

\* vec![0; self.lead_time] asks for 8 bytes a slot: more than isize::MAX
\* bytes is a panic ("capacity overflow").
CapacityOverflows(lt) == Lt(IsizeMax, Times(lt, W(8)))

\* vec![0; self.lead_time]
EmptyTrucks(lt) == [i \in 0 .. ToInt(lt) - 1 |-> Zero]

NoOrders(lt) == [i \in 0 .. ToInt(lt) - 1 |-> NoDay]

(***************************************************************************)
(* Simulation::new stores its arguments, the shapes defaulted.  It checks  *)
(* nothing.                                                                *)
(***************************************************************************)
NewSimulation(a_safety_stock, a_lead_time, a_order_quantity, a_job_lot_zipf, a_itemwise_traffic_zipf) ==
    [safety_stock |-> a_safety_stock,
     lead_time |-> a_lead_time,
     order_quantity |-> a_order_quantity,
     job_lot_zipf |-> UnwrapOr(a_job_lot_zipf, DefaultJobLotZipf),
     itemwise_traffic_zipf |-> UnwrapOr(a_itemwise_traffic_zipf, DefaultItemwiseTrafficZipf)]

(***************************************************************************)
(* simulate_demand_inner as a step function on the record of its locals.   *)
(* at is the position in the function: "arrival" (the head of the day      *)
(* loop), "customers" (line 55), "demand" (the customer loop), "done"      *)
(* (the tuple is returned), "panic" or "abort".  drawn, arrived, ordered   *)
(* delivered and days_done are history, not locals: the customers drawn    *)
(* and the quantity added by arrivals so far, the day each slot's pending  *)
(* order was placed on, the order the last arrival step delivered, and     *)
(* the number of loop bodies completed.                                    *)
(***************************************************************************)
NoTrial ==
    [at |-> "none", fault |-> NoFault, day |-> 0, stock |-> Zero, trucks |-> <<>>,
     successful_transactions |-> Zero, successful_sales |-> Zero,
     failed_transactions |-> Zero, failed_sales |-> Zero,
     customers |-> 0, customer |-> 0,
     drawn |-> 0, arrived |-> Zero, ordered |-> <<>>, delivered |-> None, days_done |-> 0,
     wrapped |-> FALSE]

\* A panic: the runtime formats the message and boxes the payload before it
\* unwinds.  boxed is the answer of the allocator to these requests: refused,
\* the process aborts where it would have unwound.
PanicOf(t, kind, boxed) ==
    [t EXCEPT !.at = IF boxed THEN "panic" ELSE "abort", !.fault = kind]

\* handle_alloc_error: the allocator has no memory and the process aborts.
AbortOf(t) == [t EXCEPT !.at = "abort", !.fault = "alloc"]

\* The builds a trial may still be running in: one whose addition has wrapped
\* has no overflow checks.
Builds(t) == IF t.wrapped THEN {FALSE} ELSE BOOLEAN

\* Lines 41-46.
TrialStart(q, lt) ==
    [NoTrial EXCEPT !.at = "arrival", !.stock = q, !.trucks = EmptyTrucks(lt),
                    !.ordered = NoOrders(lt)]

\* Lines 41-49: the locals, the ring, then the two samplers, whose
\* construction is unwrapped.  served is the answer of the allocator to the
\* request for the ring; an empty ring asks for nothing.  boxed is its answer
\* to the requests of a panic.
Begin(self, q, served, boxed) ==
    IF CapacityOverflows(self.lead_time)
    THEN PanicOf([NoTrial EXCEPT !.stock = q], "capacity_overflow", boxed)
    ELSE IF self.lead_time # Zero /\ ~served THEN AbortOf([NoTrial EXCEPT !.stock = q])
    ELSE LET t == TrialStart(q, self.lead_time) IN
         IF ZipfNewOk(1000, self.job_lot_zipf) /\ ZipfNewOk(1000, self.itemwise_traffic_zipf)
         THEN t
         ELSE PanicOf(t, "zipf", boxed)

\* Lines 51-53: the loop head, then stock += trucks[day % self.lead_time].
\* The slot is read and left as it is.
ArrivalStep(self, t, checks, boxed) ==
    IF t.day >= Days THEN [t EXCEPT !.at = "done"]
    ELSE IF self.lead_time = Zero THEN PanicOf(t, "rem_by_zero", boxed)
    ELSE LET slot == ArrivalSlot(t.day, self.lead_time) IN
         IF slot \notin DOMAIN t.trucks THEN PanicOf(t, "index", boxed)
         ELSE IF checks /\ AddOverflows(t.stock, t.trucks[slot]) THEN PanicOf(t, "overflow", boxed)
         ELSE [t EXCEPT !.at = "customers",
                        !.stock = WrapAdd(t.stock, t.trucks[slot]),
                        !.wrapped = t.wrapped \/ AddOverflows(t.stock, t.trucks[slot]),
                        !.arrived = Plus(t.arrived, t.trucks[slot]),
                        !.delivered = IF t.ordered[slot] # NoDay
                                      THEN Some([placed |-> t.ordered[slot], day |-> t.day,
                                                 quantity |-> t.trucks[slot]])
                                      ELSE None,
                        !.ordered[slot] = NoDay]

CustomersStepOneFewer(t, c) ==
    [t EXCEPT !.at = "demand", !.customers = c - 1, !.customer = 0,
              !.drawn = t.drawn + c - 1, !.delivered = None]

\* Line 55: the customer count of the day is sampled once.
CustomersStep(t, c) ==
    [t EXCEPT !.at = "demand", !.customers = c, !.customer = 0,
              !.drawn = t.drawn + c, !.delivered = None]

\* One of the two counter pairs of lines 60-61 and 65-66 does not fit the word.
CountOverflows(transactions, sales, request) ==
    AddOverflows(transactions, One) \/ AddOverflows(sales, request)

DemandStepPartialFill(t, sample, checks, boxed) ==
    LET request == W(sample) IN
    IF Enough(t.stock, request)
    THEN [t EXCEPT !.customer = t.customer + 1,
                   !.successful_transactions = Plus(t.successful_transactions, One),
                   !.successful_sales = Plus(t.successful_sales, request),
                   !.stock = Minus(t.stock, request)]
    ELSE [t EXCEPT !.customer = t.customer + 1,
                   !.failed_transactions = Plus(t.failed_transactions, One),
                   !.failed_sales = Plus(t.failed_sales, request),
                   !.stock = Zero]

DemandStepDropsFailure(t, sample, checks, boxed) ==
    LET request == W(sample) IN
    IF Enough(t.stock, request)
    THEN [t EXCEPT !.customer = t.customer + 1,
                   !.successful_transactions = Plus(t.successful_transactions, One),
                   !.successful_sales = Plus(t.successful_sales, request),
                   !.stock = Minus(t.stock, request)]
    ELSE [t EXCEPT !.customer = t.customer + 1,
                   !.failed_sales = Plus(t.failed_sales, request)]

\* Lines 57-67: one customer, whose request is the sample as a usize.
DemandStep(t, sample, checks, boxed) ==
    LET request == W(sample) IN
    IF Enough(t.stock, request)
    THEN IF checks /\ CountOverflows(t.successful_transactions, t.successful_sales, request)
         THEN PanicOf(t, "overflow", boxed)
         ELSE [t EXCEPT !.customer = t.customer + 1,
                        !.successful_transactions = WrapAdd(t.successful_transactions, One),
                        !.successful_sales = WrapAdd(t.successful_sales, request),
                        !.stock = Minus(t.stock, request),
                        !.wrapped = t.wrapped \/ CountOverflows(t.successful_transactions,
                                                                t.successful_sales, request)]
    ELSE IF checks /\ CountOverflows(t.failed_transactions, t.failed_sales, request)
         THEN PanicOf(t, "overflow", boxed)
         ELSE [t EXCEPT !.customer = t.customer + 1,
                        !.failed_transactions = WrapAdd(t.failed_transactions, One),
                        !.failed_sales = WrapAdd(t.failed_sales, request),
                        !.wrapped = t.wrapped \/ CountOverflows(t.failed_transactions,
                                                                t.failed_sales, request)]

ReorderStepAccumulates(self, t, checks, boxed) ==
    IF BelowSafety(t.stock, self.safety_stock)
    THEN LET short == Max(Minus(self.safety_stock, t.stock), Zero) IN
              IF checks /\ OrdersOverflows(short, self.order_quantity)
              THEN PanicOf(t, "overflow", boxed)
              ELSE IF self.order_quantity = Zero THEN PanicOf(t, "div_by_zero", boxed)
              ELSE LET orders == Orders(short, self.order_quantity)
                       slot == OrderSlot(t.day, self.lead_time)
                   IN  IF slot \notin DOMAIN t.trucks THEN PanicOf(t, "index", boxed)
                       ELSE [t EXCEPT !.at = "arrival", !.day = t.day + 1,
                                      !.days_done = t.days_done + 1,
                                      !.wrapped = t.wrapped
                                                  \/ OrdersOverflows(short, self.order_quantity),
                                      !.trucks[slot] =
                                          WrapAdd(t.trucks[slot],
                                                  Times(orders, self.order_quantity)),
                                      !.ordered[slot] = t.day]
    ELSE [t EXCEPT !.at = "arrival", !.day = t.day + 1, !.days_done = t.days_done + 1]

\* Lines 70-75: the reorder decision, then the next day.  The shortfall is
\* taken under stock < safety_stock and does not underflow; the sum of line 72
\* is taken before the division; orders * order_quantity is at most that sum
\* and fits the word.
ReorderStep(self, t, checks, boxed) ==
    IF BelowSafety(t.stock, self.safety_stock)
    THEN LET short == Max(Minus(self.safety_stock, t.stock), Zero) IN
              IF checks /\ OrdersOverflows(short, self.order_quantity)
              THEN PanicOf(t, "overflow", boxed)
              ELSE IF self.order_quantity = Zero THEN PanicOf(t, "div_by_zero", boxed)
              ELSE LET orders == Orders(short, self.order_quantity)
                       slot == OrderSlot(t.day, self.lead_time)
                   IN  IF slot \notin DOMAIN t.trucks THEN PanicOf(t, "index", boxed)
                       ELSE [t EXCEPT !.at = "arrival", !.day = t.day + 1,
                                      !.days_done = t.days_done + 1,
                                      !.wrapped = t.wrapped
                                                  \/ OrdersOverflows(short, self.order_quantity),
                                      !.trucks[slot] = Times(orders, self.order_quantity),
                                      !.ordered[slot] = t.day]
    ELSE [t EXCEPT !.at = "arrival", !.day = t.day + 1, !.days_done = t.days_done + 1]

\* Lines 76-85.
TrialTuple(t) ==
    ResultTuple(t.successful_transactions, t.successful_sales,
                t.failed_transactions, t.failed_sales)

(***************************************************************************)
(* A whole trial on a sample stream: every sample, of either sampler, is   *)
(* the next element of stream, read cyclically from position i.            *)
(***************************************************************************)
Streams == [1 .. StreamLen -> 1 .. NumElements]

SampleAt(stream, i) == stream[((i - 1) % Len(stream)) + 1]

\* The trial t runs to its end.
RECURSIVE RunTrial(_, _, _, _, _, _)
RunTrial(self, t, stream, i, checks, boxed) ==
    IF t.at \notin {"arrival", "customers", "demand"} THEN t
    ELSE LET draws == t.at = "customers" \/ (t.at = "demand" /\ t.customer < t.customers)
             next == CASE t.at = "arrival" -> ArrivalStep(self, t, checks, boxed)
                       [] t.at = "customers" -> CustomersStep(t, SampleAt(stream, i))
                       [] t.at = "demand" /\ t.customer < t.customers ->
                             DemandStep(t, SampleAt(stream, i), checks, boxed)
                       [] OTHER -> ReorderStep(self, t, checks, boxed)
         IN  RunTrial(self, next, stream, IF draws THEN i + 1 ELSE i, checks, boxed)

NoOcl == [at |-> "none", chunk_size |-> 0, chunk_count |-> 0, kernel |-> None,
          device |-> None, ret |-> None, wrapped |-> FALSE]

NoTwin ==
    [sim |-> NewSimulation(Zero, Zero, Zero, None, None), trial |-> NoTrial,
     order_days |-> <<0, 0>>]

(***************************************************************************)
(* Initial state: no engine constructed yet.                               *)
(***************************************************************************)
Init ==
    /\ pc = "new"
    /\ sim = NewSimulation(Zero, Zero, Zero, None, None)
    /\ caller = NoCaller /\ starting_quantity = Zero /\ count = 0
    /\ trial = NoTrial
    /\ st = Zero /\ ss = Zero /\ ft = Zero /\ fs = Zero /\ iter = 0
    /\ result = None
    /\ trials = 0 /\ trial_sum = <<Zero, Zero, Zero, Zero>> /\ started = NoTrial
    /\ ocl = NoOcl /\ failure = None /\ payload = None
    /\ twin = NoTwin

New(a_safety_stock, a_lead_time, a_order_quantity, a_job_lot_zipf, a_itemwise_traffic_zipf) ==
    /\ pc = "new"
    /\ sim' = NewSimulation(a_safety_stock, a_lead_time, a_order_quantity,
                            a_job_lot_zipf, a_itemwise_traffic_zipf)
    /\ pc' = "idle"
    /\ UNCHANGED <<callv, trial, batchv, result, histv, oclv, twin>>

\* The safety stocks of the calls: none, a small one, and the largest word.
SafetyInputs == {W(0), W(MaxSafety), UsizeMax}

\* The lead times of the calls: none, the shortest and the longest of the
\* small ones, 2^59, and the largest word.
LeadInputs == {W(0), W(1), W(MaxLead), <<0, 576460752, 303423488>>, UsizeMax}

\* The order quantities of the calls: none, the smallest and a larger one.
OrderInputs == {W(0), W(1), W(MaxOrder)}

\* An empty stock, a small one, and one next to the largest word where the
\* safety stock lies above it and orders are placed on top of it.
StartInputs(self) ==
    {W(0), W(MaxStart)}
        \cup (IF self.safety_stock = UsizeMax THEN {Minus(UsizeMax, One)} ELSE {})

\* The answers of the allocator to the request for a ring: a ring of no
\* slots asks for nothing, no machine has the memory of 2^54 slots or more
\* (2^57 bytes, more than a process can address), and for every other ring
\* it depends on the machine whether the request is served.
Served(lt) ==
    IF lt = Zero THEN {TRUE}
    ELSE IF Le(<<0, 18014398, 509481984>>, lt) THEN {FALSE}
    ELSE BOOLEAN

Construct ==
    /\ pc = "new"
    /\ \E a \in SafetyInputs, b \in LeadInputs, c \in OrderInputs,
          d \in ShapeInputs, e \in ShapeInputs : New(a, b, c, d, e)

(***************************************************************************)
(* Spec: simulate_demand, one trial step by step.                          *)
(***************************************************************************)
\* plain is a step of the trial in a build without overflow checks.  Where
\* it neither panics nor wraps, the step is the same in a build with them and
\* asks the allocator for nothing: plain is its one outcome.
Settled(plain) == plain.at # "panic" /\ plain.wrapped = trial.wrapped

TrialTo(nexts) ==
    \E t \in nexts :
        /\ trial' = t
        /\ pc' = IF t.at \in {"panic", "abort"} THEN t.at ELSE pc

simulate_demand(a_starting_quantity) ==
    /\ pc = "idle"
    /\ caller' = "simulate_demand"
    /\ starting_quantity' = a_starting_quantity
    /\ \E t \in {Begin(sim, a_starting_quantity, served, boxed) :
                    served \in Served(sim.lead_time), boxed \in BOOLEAN} :
        /\ trial' = t
        /\ started' = IF t.fault \in {"alloc", "capacity_overflow"} THEN started ELSE t
        /\ pc' = IF t.at \in {"panic", "abort"} THEN t.at ELSE "trial"
    /\ UNCHANGED <<sim, count, batchv, result, trials, trial_sum, oclv, twin>>

Arrival ==
    /\ pc = "trial" /\ trial.at = "arrival" /\ trial.day < Days
    /\ \E plain \in {ArrivalStep(sim, trial, FALSE, TRUE)} :
          TrialTo(IF Settled(plain) THEN {plain}
                  ELSE {ArrivalStep(sim, trial, checks, boxed) :
                            checks \in Builds(trial), boxed \in BOOLEAN})
    /\ UNCHANGED <<sim, callv, batchv, result, histv, oclv, twin>>

Customers(c) ==
    /\ pc = "trial" /\ trial.at = "customers"
    /\ TrialTo({CustomersStep(trial, c)})
    /\ UNCHANGED <<sim, callv, batchv, result, histv, oclv, twin>>

Demand(request) ==
    /\ pc = "trial" /\ trial.at = "demand" /\ trial.customer < trial.customers
    /\ \E plain \in {DemandStep(trial, request, FALSE, TRUE)} :
          TrialTo(IF Settled(plain) THEN {plain}
                  ELSE {DemandStep(trial, request, checks, boxed) :
                            checks \in Builds(trial), boxed \in BOOLEAN})
    /\ UNCHANGED <<sim, callv, batchv, result, histv, oclv, twin>>

Reorder ==
    /\ pc = "trial" /\ trial.at = "demand" /\ trial.customer >= trial.customers
    /\ \E plain \in {ReorderStep(sim, trial, FALSE, TRUE)} :
          TrialTo(IF Settled(plain) THEN {plain}
                  ELSE {ReorderStep(sim, trial, checks, boxed) :
                            checks \in Builds(trial), boxed \in BOOLEAN})
    /\ UNCHANGED <<sim, callv, batchv, result, histv, oclv, twin>>

Return ==
    /\ pc = "trial" /\ trial.at = "arrival" /\ trial.day >= Days
    /\ \E checks \in Builds(trial), boxed \in BOOLEAN :
          trial' = ArrivalStep(sim, trial, checks, boxed)
    /\ result' = Some(TrialTuple(trial))
    /\ trials' = trials + 1
    /\ trial_sum' = [i \in 1 .. 4 |-> Plus(trial_sum[i], TrialTuple(trial)[i])]
    /\ pc' = "returned"
    /\ UNCHANGED <<sim, callv, batchv, started, oclv, twin>>

Next ==
    \/ Construct
    \/ \E q \in StartInputs(sim) : simulate_demand(q)
    \/ Arrival
    \/ \E c \in 1 .. NumElements : Customers(c)
    \/ \E r \in 1 .. NumElements : Demand(r)
    \/ Reorder
    \/ Return

Spec == Init /\ [][Next]_vars

(***************************************************************************)
(* SpecBatch: repeat_simulate_demand.  Each iteration of its loop is one   *)
(* call of simulate_demand_inner, on a sample stream of its own.           *)
(***************************************************************************)
\* Line 99.
repeat_simulate_demand(a_starting_quantity, a_count) ==
    /\ pc = "idle"
    /\ caller' = "repeat_simulate_demand"
    /\ starting_quantity' = a_starting_quantity
    /\ count' = a_count
    /\ st' = Zero /\ ss' = Zero /\ ft' = Zero /\ fs' = Zero /\ iter' = 0
    /\ pc' = "repeat"
    /\ UNCHANGED <<sim, trial, result, histv, oclv, twin>>

AccumulateOverwrites(acc, x) == x

\* What lines 102-105 add to one accumulator, the sum wrapped.
Accumulate(acc, x) == WrapAdd(acc, x)

\* One of the four sums of lines 102-105 does not fit the word.
AccumulateOverflows(a_st, a_ss, a_ft, a_fs, x) ==
    \/ AddOverflows(a_st, x[1]) \/ AddOverflows(a_ss, x[2])
    \/ AddOverflows(a_ft, x[3]) \/ AddOverflows(a_fs, x[4])

\* Lines 100-105.
RepeatIteration(stream) ==
    /\ pc = "repeat"
    /\ iter < count
    /\ \E checks \in Builds(trial), served \in Served(sim.lead_time), boxed \in BOOLEAN :
       \E t0 \in {[Begin(sim, starting_quantity, served, boxed)
                      EXCEPT !.wrapped = trial.wrapped]} :
       \E r \in {RunTrial(sim, t0, stream, 1, checks, boxed)} :
       \E x \in {TrialTuple(r)} :
       \E over \in {r.at = "done" /\ AccumulateOverflows(st, ss, ft, fs, x)} :
       \E t \in {IF over /\ checks THEN PanicOf(r, "overflow", boxed)
                 ELSE [r EXCEPT !.wrapped = r.wrapped \/ over]} :
           /\ started' = IF t0.fault \in {"alloc", "capacity_overflow"} THEN started ELSE t0
           /\ trial' = t
           /\ IF t.at \in {"panic", "abort"}
              THEN /\ pc' = t.at
                   /\ UNCHANGED <<batchv, trials, trial_sum>>
              ELSE /\ st' = Accumulate(st, x[1])
                   /\ ss' = Accumulate(ss, x[2])
                   /\ ft' = Accumulate(ft, x[3])
                   /\ fs' = Accumulate(fs, x[4])
                   /\ iter' = iter + 1
                   /\ trials' = trials + 1
                   /\ trial_sum' = [i \in 1 .. 4 |-> Plus(trial_sum[i], x[i])]
                   /\ pc' = pc
    /\ UNCHANGED <<sim, callv, result, oclv, twin>>

\* Lines 107-114.
RepeatReturn ==
    /\ pc = "repeat"
    /\ iter >= count
    /\ result' = Some(ResultTuple(st, ss, ft, fs))
    /\ pc' = "returned"
    /\ UNCHANGED <<sim, callv, trial, batchv, histv, oclv, twin>>

NextBatch ==
    \/ Construct
    \/ \E q \in StartInputs(sim), n \in 0 .. MaxCount : repeat_simulate_demand(q, n)
    \/ \E stream \in Streams : RepeatIteration(stream)
    \/ RepeatReturn

SpecBatch == Init /\ [][NextBatch]_vars

(***************************************************************************)
(* SpecOcl: the OpenCL engine of rustoclsim.  Simulation::new precomputes  *)
(* the two sample tables; ocl_repeat_simulate_demand builds the program    *)
(* queue, the buffers and the kernel, runs it and sums what the lanes      *)
(* wrote; repeat_simulate_demand unwraps its result.                       *)
(***************************************************************************)
\* let chunk_count = 1000
ChunkCount == 1000

\* self.lead_time.min(10)
KernelLeadTimeCap == 10

\* (0..(16 << 20)) in precompute_zipf_buffer
PrecompLen == 16777216

I32Max == 2147483647

Min(a, b) == IF Le(a, b) THEN a ELSE b

\* x as i32: the low 32 bits of x, as a signed number.
AsI32(x) ==
    LET low == Low32(x) IN
    IF Le(low, W(I32Max)) THEN ToInt(low)
    ELSE 0 - ToInt(Minus(Minus(TwoTo32, One), low)) - 1

\* precompute_zipf_buffer: the sampler is unwrapped, then PrecompLen samples
\* are drawn from it.  The table is carried by what it was drawn from.
PrecomputeZipfBuffer(num_elements, exponent) ==
    IF ZipfNewOk(num_elements, exponent)
    THEN Some([num_elements |-> num_elements, exponent |-> exponent, len |-> PrecompLen])
    ELSE None

\* let chunk_size = simulation_samples / 1000
ChunkSize(simulation_samples) == simulation_samples \div 1000

\* The arguments of the kernel after the seven buffers (lines 132-137).
KernelArgs(self, a_starting_quantity, chunk_size) ==
    [starting_quantity |-> a_starting_quantity,
     lead_time |-> Min(self.lead_time, W(KernelLeadTimeCap)),
     safety_stock |-> AsI32(self.safety_stock),
     order_quantity |-> AsI32(self.order_quantity),
     precomp_len |-> self.itemwise_traffic_zipf_precomp.len,
     chunk_size |-> chunk_size]

\* The steps of ocl_repeat_simulate_demand that end in `?` are named by what
\* they bind: pro_que, the seven buffers, kernel, enq, and the four sums.
\* The step after each, "return" after the last.
After ==
    [pro_que |-> "job_lot_zipf_precomp",
     job_lot_zipf_precomp |-> "itemwise_traffic_zipf_precomp",
     itemwise_traffic_zipf_precomp |-> "seed",
     seed |-> "successful_transactions",
     successful_transactions |-> "successful_sales",
     successful_sales |-> "failed_transactions",
     failed_transactions |-> "failed_sales",
     failed_sales |-> "kernel",
     kernel |-> "enq",
     enq |-> "st", st |-> "ss", ss |-> "ft", ft |-> "fs", fs |-> "return"]

BufferSteps ==
    {"job_lot_zipf_precomp", "itemwise_traffic_zipf_precomp", "seed",
     "successful_transactions", "successful_sales", "failed_transactions", "failed_sales"}

ReadSteps == {"st", "ss", "ft", "fs"}

\* A buffer of per-lane counters is carried as its runs of equal lanes:
\* <<[n |-> 3, v |-> 7], [n |-> 2, v |-> 0]>> is the vector 7, 7, 7, 0, 0.
Lanes(n, v) == <<[n |-> n, v |-> v]>>

RECURSIVE VecLen(_)
VecLen(vec) == IF vec = <<>> THEN 0 ELSE Head(vec).n + VecLen(Tail(vec))

\* The lanes of vec added up as numbers.
RECURSIVE Total(_)
Total(vec) ==
    IF vec = <<>> THEN Zero ELSE Plus(Times(Head(vec).v, W(Head(vec).n)), Total(Tail(vec)))

\* The u64 sum of vec leaves the word at one of its additions.
SumOverflows(vec) == Lt(UsizeMax, Total(vec))

\* vec.iter().copied().sum::<u64>() of a buffer read back, each addition
\* wrapped; the conversion of the u64 to usize loses nothing on a 64-bit host.
SumVec(vec) == Low64(Total(vec))

\* The counters a lane may leave in its element of a result buffer.
LaneOutputs == {Zero, W(MaxLaneOut), UsizeMax}

\* What the lanes of one run leave in the four result buffers: small counters,
\* or the largest word in one of the buffers.
RunOutputs ==
    [1 .. 4 -> {Zero, W(MaxLaneOut)}]
        \cup {[i \in 1 .. 4 |-> IF i = k THEN UsizeMax ELSE W(MaxLaneOut)] : k \in 1 .. 4}

\* What the device holds after the kernel ran on chunk_count lanes: one
\* counter per lane in each of the four result buffers.
KernelOutputs(chunk_count, v) ==
    [successful_transactions |-> Lanes(chunk_count, v[1]),
     successful_sales |-> Lanes(chunk_count, v[2]),
     failed_transactions |-> Lanes(chunk_count, v[3]),
     failed_sales |-> Lanes(chunk_count, v[4])]

\* expr? : on failure the function returns Err at once.
Failed(o, step) == [o EXCEPT !.ret = <<"Err", step>>]

\* The outcomes of get_sum: Ok(sum), Err, or the panic of a checked addition.
SumOk(sum) == [tag |-> "Ok", sum |-> sum]

SumErr == [tag |-> "Err", sum |-> Zero]

SumPanic == [tag |-> "panic", sum |-> Zero]

GetSumFirstRun(buffer, ok, checks) ==
    IF ~ok THEN SumErr
    ELSE LET total == Total(buffer) IN
         IF checks /\ Lt(UsizeMax, total) THEN SumPanic
         ELSE SumOk(SumVec(SubSeq(buffer, 1, 1)))

GetSumIgnoresError(buffer, ok, checks) ==
    IF ~ok THEN SumOk(Zero)
    ELSE LET total == Total(buffer) IN
         IF checks /\ Lt(UsizeMax, total) THEN SumPanic
         ELSE SumOk(Low64(total))

\* get_sum: buffer.read(&mut vec).enq()?, then the sum of vec, which panics
\* where SumOverflows(vec) in a build with overflow checks and is SumVec(vec)
\* otherwise.
GetSum(buffer, ok, checks) ==
    IF ~ok THEN SumErr
    ELSE LET total == Total(buffer) IN
         IF checks /\ Lt(UsizeMax, total) THEN SumPanic
         ELSE SumOk(Low64(total))

OclLeadTimes == {W(0), W(1), W(KernelLeadTimeCap), W(KernelLeadTimeCap + 1)}

\* The safety stocks of the calls: the small ones and the largest word.
OclSafetyInputs == {W(a) : a \in 0 .. MaxSafety} \cup {UsizeMax}

SampleCounts ==
    {k * ChunkCount + r : k \in 0 .. MaxChunks, r \in {0, ChunkCount - 1}}

InitOcl == Init

\* How a panic ends: it unwinds when the allocator serves the requests of
\* the panic (boxed), and the process aborts when it refuses them.
PanicEnd(boxed) == IF boxed THEN "panic" ELSE "abort"

\* rustoclsim Simulation::new: the table of job_lot_zipf, then that of
\* itemwise_traffic_zipf (lines 71-72).  Each is the unwrap of its sampler
\* (line 175), then the collect of line 177, one request for the PrecompLen
\* samples; jl_served and it_served are the answers of the allocator to the
\* two requests.
OclNew(a_safety_stock, a_lead_time, a_order_quantity, a_job_lot_zipf, a_itemwise_traffic_zipf, jl_served, it_served, boxed) ==
    /\ pc = "new"
    /\ LET jl == PrecomputeZipfBuffer(1000, UnwrapOr(a_job_lot_zipf, DefaultJobLotZipf))
           it == PrecomputeZipfBuffer(1000, UnwrapOr(a_itemwise_traffic_zipf,
                                                     DefaultItemwiseTrafficZipf))
           end == IF jl = None THEN PanicEnd(boxed)
                  ELSE IF ~jl_served THEN "abort"
                  ELSE IF it = None THEN PanicEnd(boxed)
                  ELSE IF ~it_served THEN "abort"
                  ELSE "idle"
       IN  /\ pc' = end
           /\ payload' = IF end = "panic" THEN Some("zipf") ELSE payload
           /\ sim' = IF end = "idle"
                     THEN [safety_stock |-> a_safety_stock,
                           lead_time |-> a_lead_time,
                           order_quantity |-> a_order_quantity,
                           job_lot_zipf_precomp |-> jl[1],
                           itemwise_traffic_zipf_precomp |-> it[1]]
                     ELSE sim
    /\ UNCHANGED <<callv, trial, batchv, result, histv, ocl, failure, twin>>

\* repeat_simulate_demand calls ocl_repeat_simulate_demand: lines 87-88.
OclCall(a_starting_quantity, simulation_samples) ==
    /\ pc = "idle"
    /\ caller' = "ocl_repeat_simulate_demand"
    /\ starting_quantity' = a_starting_quantity
    /\ count' = simulation_samples
    /\ ocl' = [NoOcl EXCEPT !.at = "pro_que", !.chunk_size = ChunkSize(simulation_samples),
                            !.chunk_count = ChunkCount]
    /\ pc' = "ocl"
    /\ UNCHANGED <<sim, trial, batchv, result, histv, failure, payload, twin>>

Running == pc = "ocl" /\ ocl.ret = None

\* The process aborts where it is: the allocator refused a request.
Aborts == pc' = "abort" /\ UNCHANGED ocl

\* expr? on an Err: the error is converted into a failure::Error, which is
\* boxed, and the function returns it at once.  boxed is the answer of the
\* allocator to the request for the box.
FailStep(step, boxed) ==
    /\ failure' = Some(step)
    /\ IF boxed THEN ocl' = Failed(ocl, step) /\ UNCHANGED pc
                ELSE Aborts

\* Lines 91-94.
BuildProQue(ok, boxed) ==
    /\ Running /\ ocl.at = "pro_que"
    /\ IF ok THEN ocl' = [ocl EXCEPT !.at = After[ocl.at]] /\ UNCHANGED <<pc, failure>>
             ELSE FailStep(ocl.at, boxed)
    /\ UNCHANGED <<sim, callv, trial, batchv, result, histv, payload, twin>>

\* Lines 99-121: the two tables, the seeds and the four result buffers.  The
\* seeds are first collected on the host (line 110); served is the answer of
\* the allocator to the request for them.
CreateBuffer(ok, served, boxed) ==
    /\ Running
    /\ ocl.at \in BufferSteps
    /\ IF ocl.at = "seed" /\ ~served THEN Aborts /\ UNCHANGED failure
       ELSE IF ok THEN ocl' = [ocl EXCEPT !.at = After[ocl.at]] /\ UNCHANGED <<pc, failure>>
       ELSE FailStep(ocl.at, boxed)
    /\ UNCHANGED <<sim, callv, trial, batchv, result, histv, payload, twin>>

\* Lines 124-138.
BuildKernel(ok, boxed) ==
    /\ Running /\ ocl.at = "kernel"
    /\ IF ok THEN /\ ocl' = [ocl EXCEPT !.at = After[ocl.at],
                                         !.kernel = Some(KernelArgs(sim, starting_quantity,
                                                                    ocl.chunk_size))]
                  /\ UNCHANGED <<pc, failure>>
             ELSE FailStep(ocl.at, boxed)
    /\ UNCHANGED <<sim, callv, trial, batchv, result, histv, payload, twin>>

\* Lines 140-147: the kernel runs on every lane, then the host vector of the
\* read-back is allocated; served is the answer of the allocator to the
\* request for it.
Enqueue(ok, v, served, boxed) ==
    /\ Running /\ ocl.at = "enq"
    /\ IF ~ok THEN FailStep(ocl.at, boxed)
       ELSE IF ~served THEN Aborts /\ UNCHANGED failure
       ELSE /\ ocl' = [ocl EXCEPT !.at = After[ocl.at],
                                  !.device = Some(KernelOutputs(ocl.chunk_count, v))]
            /\ UNCHANGED <<pc, failure>>
    /\ UNCHANGED <<sim, callv, trial, batchv, result, histv, payload, twin>>

\* Lines 160-163.  boxed is the answer of the allocator to the request of
\* the step that failed: the box of the error, or that of the panic.
ReadBack(ok, boxed) ==
    /\ Running
    /\ ocl.at \in ReadSteps
    /\ LET step == ocl.at
           buffer == CASE step = "st" -> ocl.device[1].successful_transactions
                       [] step = "ss" -> ocl.device[1].successful_sales
                       [] step = "ft" -> ocl.device[1].failed_transactions
                       [] step = "fs" -> ocl.device[1].failed_sales
       IN  \E checks \in Builds(ocl) : \E got \in {GetSum(buffer, ok, checks)} :
             /\ failure' = IF ok THEN failure ELSE Some(step)
             /\ CASE got.tag = "Err" ->
                       /\ IF boxed THEN ocl' = Failed(ocl, step) /\ UNCHANGED pc
                                   ELSE Aborts
                       /\ UNCHANGED <<payload, st, ss, ft, fs>>
                  [] got.tag = "panic" ->
                       /\ pc' = PanicEnd(boxed)
                       /\ payload' = IF boxed THEN Some("overflow") ELSE payload
                       /\ UNCHANGED <<ocl, st, ss, ft, fs>>
                  [] OTHER ->
                       /\ ocl' = [ocl EXCEPT !.at = After[ocl.at],
                                             !.wrapped = ocl.wrapped \/ SumOverflows(buffer)]
                       /\ st' = IF step = "st" THEN got.sum ELSE st
                       /\ ss' = IF step = "ss" THEN got.sum ELSE ss
                       /\ ft' = IF step = "ft" THEN got.sum ELSE ft
                       /\ fs' = IF step = "fs" THEN got.sum ELSE fs
                       /\ UNCHANGED <<pc, payload>>
    /\ UNCHANGED <<sim, callv, trial, iter, result, histv, twin>>

\* Lines 165-167.
OclReturn ==
    /\ Running /\ ocl.at = "return"
    /\ ocl' = [ocl EXCEPT !.ret = <<"Ok", ResultTuple(st, ss, ft, fs)>>]
    /\ UNCHANGED <<pc, sim, callv, trial, batchv, result, histv, failure, payload, twin>>

\* Line 49: .unwrap()
Unwrap(boxed) ==
    /\ pc = "ocl" /\ ocl.ret # None
    /\ IF ocl.ret[1] = "Ok"
       THEN /\ result' = Some(ocl.ret[2])
            /\ pc' = "returned"
            /\ UNCHANGED payload
       ELSE /\ payload' = IF boxed THEN Some(ocl.ret[2]) ELSE payload
            /\ pc' = PanicEnd(boxed)
            /\ UNCHANGED result
    /\ UNCHANGED <<sim, callv, trial, batchv, histv, ocl, failure, twin>>

OclConstruct ==
    /\ pc = "new"
    /\ \E a \in OclSafetyInputs, b \in OclLeadTimes, c \in OrderInputs,
          d \in ShapeInputs, e \in ShapeInputs,
          jl_served \in BOOLEAN, it_served \in BOOLEAN, boxed \in BOOLEAN :
          OclNew(a, b, c, d, e, jl_served, it_served, boxed)

NextOcl ==
    \/ OclConstruct
    \/ pc = "idle" /\ \E q \in 0 .. MaxStart, n \in SampleCounts : OclCall(W(q), n)
    \/ Running /\ \E ok \in BOOLEAN, boxed \in BOOLEAN : BuildProQue(ok, boxed)
    \/ Running /\ \E ok \in BOOLEAN, served \in BOOLEAN, boxed \in BOOLEAN :
                     CreateBuffer(ok, served, boxed)
    \/ Running /\ \E ok \in BOOLEAN, boxed \in BOOLEAN : BuildKernel(ok, boxed)
    \/ Running /\ ocl.at = "enq"
               /\ \E ok \in BOOLEAN, v \in RunOutputs, served \in BOOLEAN, boxed \in BOOLEAN :
                     Enqueue(ok, v, served, boxed)
    \/ Running /\ \E ok \in BOOLEAN, boxed \in BOOLEAN : ReadBack(ok, boxed)
    \/ OclReturn
    \/ \E boxed \in BOOLEAN : Unwrap(boxed)

SpecOcl == InitOcl /\ [][NextOcl]_vars

(***************************************************************************)
(* SpecReduce: the read-back of lines 147-163 on its own.  The kernel has   *)
(* run and the four result buffers hold one counter per lane; the lanes    *)
(* differ: ReduceLanes single lanes and the remaining lanes as one run.    *)
(***************************************************************************)
ReduceLanes == 1

LaneVectors ==
    {[i \in 1 .. ReduceLanes + 1 |->
         [n |-> IF i <= ReduceLanes THEN 1 ELSE ChunkCount - ReduceLanes, v |-> f[i]]] :
       f \in {g \in [1 .. ReduceLanes + 1 -> LaneOutputs] :
                 \A i \in 2 .. ReduceLanes + 1 : g[i] # UsizeMax}}

\* The four result buffers on the device.
DeviceBuffers(b_st, b_ss, b_ft, b_fs) ==
    [successful_transactions |-> b_st, successful_sales |-> b_ss,
     failed_transactions |-> b_ft, failed_sales |-> b_fs]

\* ocl_repeat_simulate_demand right after kernel.enq() returned Ok.
InitReduce ==
    /\ pc = "ocl"
    /\ sim = [safety_stock |-> W(MaxSafety), lead_time |-> One, order_quantity |-> One,
              job_lot_zipf_precomp |-> PrecomputeZipfBuffer(1000, DefaultJobLotZipf)[1],
              itemwise_traffic_zipf_precomp |->
                  PrecomputeZipfBuffer(1000, DefaultItemwiseTrafficZipf)[1]]
    /\ caller = "ocl_repeat_simulate_demand" /\ starting_quantity = Zero /\ count = ChunkCount
    /\ trial = NoTrial
    /\ st = Zero /\ ss = Zero /\ ft = Zero /\ fs = Zero /\ iter = 0
    /\ result = None
    /\ trials = 0 /\ trial_sum = <<Zero, Zero, Zero, Zero>> /\ started = NoTrial
    /\ \E b_st \in LaneVectors, b_ss \in LaneVectors, b_ft \in LaneVectors, b_fs \in LaneVectors :
          ocl = [at |-> "st", chunk_size |-> ChunkSize(ChunkCount), chunk_count |-> ChunkCount,
                 kernel |-> Some(KernelArgs(sim, Zero, ChunkSize(ChunkCount))),
                 device |-> Some(DeviceBuffers(b_st, b_ss, b_ft, b_fs)),
                 ret |-> None, wrapped |-> FALSE]
    /\ failure = None /\ payload = None
    /\ twin = NoTwin

NextReduce ==
    \/ Running /\ \E ok \in BOOLEAN, boxed \in BOOLEAN : ReadBack(ok, boxed)
    \/ OclReturn
    \/ \E boxed \in BOOLEAN : Unwrap(boxed)

SpecReduce == InitReduce /\ [][NextReduce]_vars

(***************************************************************************)
(* SpecPair: two engines that differ in safety_stock only, each running    *)
(* simulate_demand_inner from the same starting_quantity on the same       *)
(* draws.  The loops of the two trials depend on the draws alone, so the   *)
(* two calls are at the same line on the same day throughout.  twin holds  *)
(* the engine with the larger safety_stock and its locals; order_days      *)
(* counts, for each of the two trials, the days line 73 was executed.      *)
(***************************************************************************)
\* Line 70 was taken on the day t was in: next has an order placed on that day.
OrderPlaced(t, next) ==
    next.at \notin {"panic", "abort"} /\ \E i \in DOMAIN next.ordered : next.ordered[i] = t.day

\* The two trials of a pair run in one build.
PairBuilds == IF trial.wrapped \/ twin.trial.wrapped THEN {FALSE} ELSE BOOLEAN

PairTo(nexts) ==
    \E n \in nexts : \E t \in {n[1]}, u \in {n[2]} :
        /\ trial' = t
        /\ twin' = [twin EXCEPT !.trial = u]
        /\ pc' = IF t.at = "abort" \/ u.at = "abort" THEN "abort"
                 ELSE IF t.at = "panic" \/ u.at = "panic" THEN "panic" ELSE pc

PairNew(a_safety_stock, b_safety_stock, a_lead_time, a_order_quantity) ==
    /\ pc = "new"
    /\ Lt(a_safety_stock, b_safety_stock)
    /\ sim' = NewSimulation(a_safety_stock, a_lead_time, a_order_quantity, None, None)
    /\ twin' = [NoTwin EXCEPT
                  !.sim = NewSimulation(b_safety_stock, a_lead_time, a_order_quantity, None, None)]
    /\ pc' = "idle"
    /\ UNCHANGED <<callv, trial, batchv, result, histv, oclv>>

PairStart(a_starting_quantity) ==
    /\ pc = "idle"
    /\ caller' = "pair"
    /\ starting_quantity' = a_starting_quantity
    /\ \E served \in Served(sim.lead_time), twin_served \in Served(twin.sim.lead_time),
          boxed \in BOOLEAN, twin_boxed \in BOOLEAN :
       \E t \in {Begin(sim, a_starting_quantity, served, boxed)},
          u \in {Begin(twin.sim, a_starting_quantity, twin_served, twin_boxed)} :
        /\ trial' = t
        /\ twin' = [twin EXCEPT !.trial = u]
        /\ pc' = IF t.at = "abort" \/ u.at = "abort" THEN "abort"
                 ELSE IF t.at = "panic" \/ u.at = "panic" THEN "panic" ELSE "trial"
    /\ UNCHANGED <<sim, count, batchv, result, histv, oclv>>

PairArrival ==
    /\ pc = "trial" /\ trial.at = "arrival" /\ trial.day < Days
    /\ PairTo({<<ArrivalStep(sim, trial, checks, boxed),
                 ArrivalStep(twin.sim, twin.trial, checks, twin_boxed)>> :
               checks \in PairBuilds, boxed \in BOOLEAN, twin_boxed \in BOOLEAN})
    /\ UNCHANGED <<sim, callv, batchv, result, histv, oclv>>

PairCustomers(c) ==
    /\ pc = "trial" /\ trial.at = "customers"
    /\ PairTo({<<CustomersStep(trial, c), CustomersStep(twin.trial, c)>>})
    /\ UNCHANGED <<sim, callv, batchv, result, histv, oclv>>

PairDemand(request) ==
    /\ pc = "trial" /\ trial.at = "demand" /\ trial.customer < trial.customers
    /\ PairTo({<<DemandStep(trial, request, checks, boxed),
                 DemandStep(twin.trial, request, checks, twin_boxed)>> :
               checks \in PairBuilds, boxed \in BOOLEAN, twin_boxed \in BOOLEAN})
    /\ UNCHANGED <<sim, callv, batchv, result, histv, oclv>>

PairReorder ==
    /\ pc = "trial" /\ trial.at = "demand" /\ trial.customer >= trial.customers
    /\ \E checks \in PairBuilds, boxed \in BOOLEAN, twin_boxed \in BOOLEAN :
       \E t \in {ReorderStep(sim, trial, checks, boxed)},
          u \in {ReorderStep(twin.sim, twin.trial, checks, twin_boxed)} :
        /\ trial' = t
        /\ twin' = [twin EXCEPT
                      !.trial = u,
                      !.order_days = <<twin.order_days[1] + IF OrderPlaced(trial, t) THEN 1 ELSE 0,
                                       twin.order_days[2] + IF OrderPlaced(twin.trial, u) THEN 1 ELSE 0>>]
        /\ pc' = IF t.at = "abort" \/ u.at = "abort" THEN "abort"
                 ELSE IF t.at = "panic" \/ u.at = "panic" THEN "panic" ELSE pc
    /\ UNCHANGED <<sim, callv, batchv, result, histv, oclv>>

PairReturn ==
    /\ pc = "trial" /\ trial.at = "arrival" /\ trial.day >= Days
    /\ \E checks \in PairBuilds, boxed \in BOOLEAN :
        /\ trial' = ArrivalStep(sim, trial, checks, boxed)
        /\ twin' = [twin EXCEPT !.trial = ArrivalStep(twin.sim, twin.trial, checks, boxed)]
    /\ result' = Some(TrialTuple(trial))
    /\ pc' = "returned"
    /\ UNCHANGED <<sim, callv, batchv, histv, oclv>>

NextPair ==
    \/ \E a \in 0 .. MaxSafety, b \in 0 .. MaxSafety, l \in 1 .. MaxLead, o \in 1 .. MaxOrder :
          PairNew(W(a), W(b), W(l), W(o))
    \/ \E q \in 0 .. MaxStart : PairStart(W(q))
    \/ PairArrival
    \/ \E c \in 1 .. NumElements : PairCustomers(c)
    \/ \E r \in 1 .. NumElements : PairDemand(r)
    \/ PairReorder
    \/ PairReturn

SpecPair == Init /\ [][NextPair]_vars

(***************************************************************************)
(* Properties of one trial (Spec).                                         *)
(***************************************************************************)
ValidShapes(self) ==
    ZipfNewOk(1000, self.job_lot_zipf) /\ ZipfNewOk(1000, self.itemwise_traffic_zipf)

InTrial == pc \in {"trial", "returned", "panic", "abort"} /\ caller = "simulate_demand"

\* C1: an order the reorder step of day d schedules, and nothing overwrites,
\* is added to the stock by the arrival step of day d + lead_time, and by no
\* earlier one, when day d + lead_time is still a day of the trial.
C1_OrderArrivesAfterLeadTime ==
    (InTrial /\ trial.delivered # None
             /\ trial.delivered[1].placed + ToInt(sim.lead_time) <= Days - 1) =>
        trial.delivered[1].day = trial.delivered[1].placed + ToInt(sim.lead_time)

\* C2: right after the arrival step of a day, the ring slot of that day
\* (day mod lead_time) holds 0.
C2_ArrivalClearsSlot ==
    (InTrial /\ trial.at = "customers") =>
        trial.trucks[ArrivalSlot(trial.day, sim.lead_time)] = Zero

\* C3: on an engine that was constructed, no configuration error (a zero
\* lead_time or order_quantity, an invalid distribution) first shows during a
\* simulation.
C3_NoConfigErrorInSimulation ==
    InTrial => trial.fault \notin {"rem_by_zero", "div_by_zero", "zipf"}

\* C4: with lead_time >= 1 and order_quantity >= 1 (and samplers that exist)
\* a trial never fails (no underflow, no division by zero, no index outside
\* the ring, no allocation that cannot be served); it runs the days 0, 1, ... one by one, is never stuck inside the loop, and
\* returns only after the last day.
C4_TrialRunsEveryDay ==
    (InTrial /\ Lt(Zero, sim.lead_time) /\ Lt(Zero, sim.order_quantity) /\ ValidShapes(sim)) =>
        /\ trial.fault = NoFault
        /\ pc \notin {"panic", "abort"}
        /\ trial.day = trial.days_done
        /\ trial.day <= Days
        /\ DOMAIN trial.trucks = 0 .. ToInt(sim.lead_time) - 1
        /\ pc = "returned" => trial.day = Days
        /\ pc = "trial" => trial.at \in {"arrival", "customers", "demand"}

\* C5: when a trial returns, successful_transactions + failed_transactions is
\* the sum of the customer counts drawn on its days.
C5_EveryCustomerCounted ==
    (InTrial /\ pc = "returned") =>
        Plus(result[1][1], result[1][3]) = W(trial.drawn)

C5_Witness ==
    /\ InTrial /\ pc = "returned"
    /\ Lt(Zero, result[1][1]) /\ Lt(Zero, result[1][3])
    /\ trial.drawn > Days

(***************************************************************************)
(* Properties of the scalar batch (SpecBatch).                             *)
(***************************************************************************)
InBatch == pc \in {"repeat", "returned", "panic", "abort"} /\ caller = "repeat_simulate_demand"

Fresh(t) ==
    /\ t.day = 0
    /\ t.stock = starting_quantity
    /\ DOMAIN t.trucks = 0 .. ToInt(sim.lead_time) - 1
    /\ \A i \in DOMAIN t.trucks : t.trucks[i] = Zero
    /\ t.successful_transactions = Zero /\ t.successful_sales = Zero
    /\ t.failed_transactions = Zero /\ t.failed_sales = Zero

\* C6: repeat_simulate_demand returns the component-wise sums of the counters
\* of exactly count trials, and each of these trials started with
\* stock = starting_quantity, every ring slot 0 and every counter 0.
C6_BatchSumsFreshTrials ==
    InBatch =>
        /\ trials > 0 => Fresh(started)
        /\ trials = iter
        /\ <<st, ss, ft, fs>> = trial_sum
        /\ pc = "returned" =>
              /\ trials = count
              /\ <<result[1][1], result[1][2], result[1][3], result[1][4]>> = trial_sum

C6_Witness ==
    /\ InBatch /\ pc = "returned" /\ count = 2
    /\ Lt(trial.successful_transactions, result[1][1])
    /\ Lt(trial.failed_transactions, result[1][3])
    /\ trial.stock # starting_quantity
    /\ \E i \in DOMAIN trial.trucks : trial.trucks[i] # Zero

\* C9: a success rate whose denominator is zero is returned as a value the
\* policy chose, never as the outcome of the division 0.0 / 0.0.
C9_ZeroDenominatorHasPolicyValue ==
    (InBatch /\ pc = "returned") =>
        ~IsNaN(result[1][5]) /\ ~IsNaN(result[1][6])

(***************************************************************************)
(* Properties of the OpenCL batch (SpecOcl).                               *)
(***************************************************************************)
InOcl == pc \in {"ocl", "returned", "panic", "abort"} /\ caller = "ocl_repeat_simulate_demand"

\* C7: the kernel is dispatched for exactly the trials asked for: the number
\* of lanes times the chunk size of a lane is trial_count.
C7_DispatchCoversEveryTrial ==
    (InOcl /\ ocl.kernel # None) =>
        ocl.chunk_count * ocl.kernel[1].chunk_size = count

\* C8: the kernel runs each lane with the configured safety_stock, lead_time
\* and order_quantity and the caller's starting_quantity, the values the
\* scalar path uses.
C8_KernelRunsTheConfiguration ==
    (InOcl /\ ocl.kernel # None) =>
        /\ ocl.kernel[1].safety_stock >= 0
        /\ W(ocl.kernel[1].safety_stock) = sim.safety_stock
        /\ ocl.kernel[1].lead_time = sim.lead_time
        /\ ocl.kernel[1].order_quantity >= 0
        /\ W(ocl.kernel[1].order_quantity) = sim.order_quantity
        /\ ocl.kernel[1].starting_quantity = starting_quantity

\* C10: when a step of the accelerated batch fails, repeat_simulate_demand
\* ends in the failure that carries that step's error and returns no
\* statistics, unless the process aborts on the way (the allocator refuses
\* the box of the error or of the panic); the only other panic is that of a
\* checked sum; a batch that ends in an abort returns no statistics either;
\* the statistics it returns are the sums over every lane of all four result
\* buffers.
C10_FailureFailsTheBatch ==
    InOcl =>
        /\ failure # None =>
              /\ result = None
              /\ pc # "returned"
              /\ ocl.ret = <<"Err", failure[1]>> \/ (pc = "abort" /\ ocl.ret = None)
              /\ pc = "panic" => payload = failure
        /\ pc = "panic" => (failure # None \/ payload = Some("overflow"))
        /\ pc = "abort" => result = None
        /\ pc = "returned" =>
              /\ failure = None
              /\ result[1][1] = SumVec(ocl.device[1].successful_transactions)
              /\ result[1][2] = SumVec(ocl.device[1].successful_sales)
              /\ result[1][3] = SumVec(ocl.device[1].failed_transactions)
              /\ result[1][4] = SumVec(ocl.device[1].failed_sales)

C10_Witness ==
    /\ InOcl /\ pc = "panic"
    /\ failure = Some("ft")
    /\ st = W(ChunkCount * MaxLaneOut) /\ Lt(Zero, ss)
    /\ VecLen(ocl.device[1].failed_transactions) = ChunkCount
    /\ result = None

(***************************************************************************)
(* Properties of the read-back (SpecReduce).                               *)
(***************************************************************************)
LanePermutations(n) ==
    {p \in [1 .. n -> 1 .. n] : \A i, j \in 1 .. n : p[i] = p[j] => i = j}

Permute(vec, p) == [i \in 1 .. Len(vec) |-> vec[p[i]]]

\* The permutations of the runs of lanes of a result buffer.
ReducePermutations == LanePermutations(ReduceLanes + 1)

\* The number of sums ocl_repeat_simulate_demand has bound so far.
SumsRead ==
    CASE ocl.at = "ss" -> 1 [] ocl.at = "ft" -> 2 [] ocl.at = "fs" -> 3
      [] ocl.at = "return" -> 4 [] OTHER -> 0

\* get_sum ends the same way on every permutation of the lanes, in either
\* build.
OrderIndependent(buffer) ==
    \A checks \in BOOLEAN : \A got \in {GetSum(buffer, TRUE, checks)} :
        \A p \in ReducePermutations :
            GetSum(Permute(buffer, p), TRUE, checks) = got

\* The result buffers of the lanes on which get_sum is order independent.
OrderIndependentBuffers == {b \in LaneVectors : OrderIndependent(b)}

\* sum is what get_sum gives for the lanes of buffer in the builds the batch
\* may be running in.
AggregateOf(sum, buffer) ==
    \A checks \in Builds(ocl) : GetSum(buffer, TRUE, checks) = SumOk(sum)

\* C11: the read-back of a result buffer ends the same way, with the same
\* sum or with the same panic, for every permutation of the lanes of the
\* buffer, and each aggregate counter it has produced is that sum.
C11_LaneOrderInvariance ==
    (InOcl /\ ocl.device # None) =>
        /\ ocl.at = "st" => ocl.device[1].successful_transactions \in OrderIndependentBuffers
        /\ ocl.at = "ss" => ocl.device[1].successful_sales \in OrderIndependentBuffers
        /\ ocl.at = "ft" => ocl.device[1].failed_transactions \in OrderIndependentBuffers
        /\ ocl.at = "fs" => ocl.device[1].failed_sales \in OrderIndependentBuffers
        /\ SumsRead >= 1 => AggregateOf(st, ocl.device[1].successful_transactions)
        /\ SumsRead >= 2 => AggregateOf(ss, ocl.device[1].successful_sales)
        /\ SumsRead >= 3 => AggregateOf(ft, ocl.device[1].failed_transactions)
        /\ SumsRead >= 4 => AggregateOf(fs, ocl.device[1].failed_sales)
        /\ pc = "returned" => result[1] = ResultTuple(st, ss, ft, fs)

C11_Witness ==
    /\ InOcl /\ pc = "returned"
    /\ Len(ocl.device[1].successful_transactions) > 1
    /\ ocl.device[1].successful_transactions[1].v # ocl.device[1].successful_transactions[2].v
    /\ ocl.device[1].failed_sales[1].v # ocl.device[1].failed_sales[2].v
    /\ Lt(Zero, result[1][1]) /\ Lt(Zero, result[1][4])

(***************************************************************************)
(* Properties of two trials on the same draws (SpecPair).                  *)
(***************************************************************************)
InPair == pc \in {"trial", "returned"} /\ caller = "pair"

\* C12: of two trials that differ only in safety_stock and see the same draws,
\* the one with the larger safety_stock has placed an order on at least as
\* many days when the trials return.
C12_ReorderMonotone ==
    (InPair /\ pc = "returned") => twin.order_days[2] >= twin.order_days[1]

(***************************************************************************)
(* More properties of one trial (Spec).                                    *)
(***************************************************************************)
\* A step of the customer loop: one request is served or turned away.
IsDemandStep ==
    /\ InTrial /\ pc = "trial" /\ trial.at = "demand" /\ trial.customer < trial.customers
    /\ trial' # trial

\* What lines 57-67 do with a request r.
DemandEffect(r) ==
    /\ trial'.trucks = trial.trucks
    /\ IF Le(W(r), trial.stock)
       THEN /\ trial'.successful_transactions = Plus(trial.successful_transactions, One)
            /\ trial'.successful_sales = Plus(trial.successful_sales, W(r))
            /\ trial'.stock = Minus(trial.stock, W(r))
            /\ trial'.failed_transactions = trial.failed_transactions
            /\ trial'.failed_sales = trial.failed_sales
       ELSE /\ trial'.failed_transactions = Plus(trial.failed_transactions, One)
            /\ trial'.failed_sales = Plus(trial.failed_sales, W(r))
            /\ trial'.stock = trial.stock
            /\ trial'.successful_transactions = trial.successful_transactions
            /\ trial'.successful_sales = trial.successful_sales

\* C13: every step of the customer loop serves one request r: with
\* stock >= r it adds 1 to successful_transactions and r to successful_sales
\* and takes r from the stock, leaving the failure counters; otherwise it adds
\* 1 to failed_transactions and r to failed_sales, leaving the stock and the
\* success counters; the ring is unchanged either way.
C13_LostSaleDemandStep ==
    [][IsDemandStep => \E r \in 1 .. NumElements : DemandEffect(r)]_vars

C13_Witness ==
    /\ InTrial /\ trial.at = "demand" /\ trial.customer = 2
    /\ Lt(Zero, trial.successful_transactions) /\ Lt(Zero, trial.failed_transactions)
    /\ Lt(Zero, trial.stock)
    /\ \E i \in DOMAIN trial.trucks : trial.trucks[i] # Zero

\* The end of a day: the customer loop is over and lines 70-74 run.
IsReorderStep ==
    /\ InTrial /\ pc = "trial" /\ trial.at = "demand" /\ trial.customer >= trial.customers
    /\ trial' # trial

\* ceil(a / b) for b >= 1.
Ceil(a, b) == LET qr == DivMod(a, b) IN IF qr[2] = Zero THEN qr[1] ELSE Plus(qr[1], One)

\* q is the smallest positive multiple of oq with s + q >= safety.
SmallestCover(q, s, safety, oq) ==
    /\ Lt(Zero, q) /\ Mod(q, oq) = Zero
    /\ Le(safety, Plus(s, q))
    /\ Lt(Plus(s, Minus(q, oq)), safety)

\* C14: when a day ends with stock < safety_stock (and order_quantity >= 1),
\* the reorder step schedules ceil((safety_stock - stock) / order_quantity) *
\* order_quantity, the smallest positive multiple of order_quantity that
\* lifts the stock to safety_stock; the shortfall is positive, so max(., 0)
\* leaves it as it is.
C14_ReorderQuantity ==
    [][(IsReorderStep /\ Lt(trial.stock, sim.safety_stock) /\ Lt(Zero, sim.order_quantity)) =>
          LET short == Minus(sim.safety_stock, trial.stock)
              slot == OrderSlot(trial.day, sim.lead_time)
          IN  /\ Lt(Zero, short)
              /\ Max(short, Zero) = short
              /\ trial'.at = "arrival"
              /\ trial'.trucks[slot] = Times(Ceil(short, sim.order_quantity), sim.order_quantity)
              /\ SmallestCover(trial'.trucks[slot], trial.stock, sim.safety_stock,
                               sim.order_quantity)]_vars

\* C15: when the reorder step writes slot (day + lead_time - 1) mod lead_time,
\* the slot then holds the order quantity line 72 just computed, whatever it
\* held before, and every other slot is as it was; a day that places no order
\* leaves the whole ring as it was.
C15_ReorderOverwrites ==
    [][(IsReorderStep /\ trial'.at \notin {"panic", "abort"}) =>
          IF Lt(trial.stock, sim.safety_stock)
          THEN trial'.trucks =
                   [trial.trucks EXCEPT ![OrderSlot(trial.day, sim.lead_time)] =
                        Times(Orders(Minus(sim.safety_stock, trial.stock), sim.order_quantity),
                              sim.order_quantity)]
          ELSE trial'.trucks = trial.trucks]_vars

\* The slot held 2 on day 1 (it was delivered then, and never cleared) and the
\* reorder step of day 1 replaced it by 1.
C15_Witness ==
    /\ InTrial /\ trial.at = "arrival" /\ trial.day = 2
    /\ sim.lead_time = One
    /\ trial.arrived = W(2)
    /\ trial.ordered[0] = 1 /\ trial.trucks[0] = One

StockConserved ==
    InTrial =>
        /\ Plus(trial.stock, trial.successful_sales) = Plus(starting_quantity, trial.arrived)
        /\ Le(Zero, trial.stock)

FailedSaleKeepsStock ==
    (IsDemandStep /\ trial'.failed_sales # trial.failed_sales) => trial'.stock = trial.stock

\* C16: at every point of a trial the stock is starting_quantity plus all the
\* quantities the arrival steps added so far minus successful_sales, and is
\* never negative; a failed sale leaves the stock as it was.
C16_StockConservation ==
    []StockConserved /\ [][FailedSaleKeepsStock]_vars

\* The largest quantity one reorder can schedule: that of an empty stock.
SlotBound(self) ==
    IF Lt(Zero, self.order_quantity)
    THEN Times(Ceil(self.safety_stock, self.order_quantity), self.order_quantity)
    ELSE Zero

\* C17: in every state of a trial each ring slot holds 0 or a positive multiple
\* of order_quantity, and never more than
\* ceil(safety_stock / order_quantity) * order_quantity.
C17_PipelineSlotBound ==
    InTrial =>
        \A i \in DOMAIN trial.trucks :
            \/ trial.trucks[i] = Zero
            \/ /\ Lt(Zero, sim.order_quantity)
               /\ Lt(Zero, trial.trucks[i])
               /\ Mod(trial.trucks[i], sim.order_quantity) = Zero
               /\ Le(trial.trucks[i], SlotBound(sim))

C17_Witness ==
    /\ InTrial /\ pc = "returned"
    /\ sim.lead_time = W(2)
    /\ trial.trucks[0] = SlotBound(sim) /\ Lt(sim.order_quantity, trial.trucks[0])
    /\ Lt(Zero, trial.trucks[1]) /\ Lt(trial.trucks[1], trial.trucks[0])

\* C18: every customer count and every request is at least 1, so a trial that
\* returns has successful_transactions + failed_transactions >= Days and
\* successful_sales + failed_sales >= Days (Days stands for 365): both
\* denominators of its rates are non-zero and its four counters are never all
\* zero.
C18_MinimumDemand ==
    (InTrial /\ pc = "returned") =>
        /\ Le(W(Days), Plus(result[1][1], result[1][3]))
        /\ Le(W(Days), Plus(result[1][2], result[1][4]))
        /\ result[1][5][2] # Zero /\ result[1][6][2] # Zero
        /\ ~IsNaN(result[1][5]) /\ ~IsNaN(result[1][6])
        /\ <<result[1][1], result[1][2], result[1][3], result[1][4]>> # <<Zero, Zero, Zero, Zero>>

C18_Witness ==
    /\ InTrial /\ pc = "returned"
    /\ Plus(result[1][1], result[1][3]) = W(Days)
    /\ Plus(result[1][2], result[1][4]) = W(Days)
    /\ Lt(Zero, result[1][1]) /\ Lt(Zero, result[1][3])

====
